---- MODULE Spec2Model ----
(***************************************************************************)
(* Model of the multi-agent clinical chatbot: the Streamlit "Run analysis" *)
(* block of src/app.py driving the LangGraph pipeline                      *)
(*   oncologist -> planner -> analyst -> writer -> END                     *)
(* of src/src/langgraph_rag/graph/multi_agent_rwe_graph.py, with the LLM   *)
(* helpers of src/src/langgraph_rag/llm.py and the MLflow run lifecycle of *)
(* src/src/langgraph_rag/observability/mlflow_utils.py.                    *)
(*                                                                         *)
(* Python values are tagged records (field t is the Python type); a dict   *)
(* is a function from its string keys to values; an exception is a record *)
(* with its class, whether the class derives from Exception, and str(e).   *)
(***************************************************************************)
EXTENDS Integers, Sequences, FiniteSets, TLC

\* ------------------------------------------------------------------ bounds
\* number of "Run analysis" clicks explored in one process
MaxRuns == 2

\* ------------------------------------------------------- Python value model
PyStr(s) == [t |-> "str", s |-> s]
PyNone == [t |-> "None"]
PyBool(b) == [t |-> "bool", b |-> b]
PyInt(n) == [t |-> "int", n |-> n]
PyList(items) == [t |-> "list", items |-> items]
PyDict(d) == [t |-> "dict", d |-> d]
\* an object of a class json cannot encode (numpy.int64, DataFrame, ...)
PyObj(cls, repr) == [t |-> "obj", cls |-> cls, repr |-> repr]

EmptyMap == [k \in {} |-> PyNone]

\* dict.get(k, default)
Get(m, k, default) == IF k \in DOMAIN m THEN m[k] ELSE default

\* exceptions: base = "Exception" iff `except Exception` catches the class
Exc(cls, base, msg) == [cls |-> cls, base |-> base, msg |-> msg]
NoExc == Exc("", "", "")
CaughtByExceptException(e) == e.base = "Exception"

\* result of a call: a value or a raised exception
Ok(v) == [ok |-> TRUE, v |-> v, exc |-> NoExc]
Raise(e) == [ok |-> FALSE, v |-> PyNone, exc |-> e]

\* str.strip() on a text given as its segments: leading and trailing
\* whitespace segments are dropped, the rest is concatenated
Whitespace == {" ", "\n"}

RECURSIVE LStrip(_)
LStrip(segs) ==
    IF segs # <<>> /\ Head(segs) \in Whitespace THEN LStrip(Tail(segs)) ELSE segs

RECURSIVE RStrip(_)
RStrip(segs) ==
    IF segs # <<>> /\ segs[Len(segs)] \in Whitespace
    THEN RStrip(SubSeq(segs, 1, Len(segs) - 1))
    ELSE segs

RECURSIVE Concat(_)
Concat(segs) == IF segs = <<>> THEN "" ELSE Head(segs) \o Concat(Tail(segs))

Strip(segs) == Concat(RStrip(LStrip(segs)))

\* str(int)
Digit(n) ==
    CASE n = 0 -> "0" [] n = 1 -> "1" [] n = 2 -> "2" [] n = 3 -> "3"
      [] n = 4 -> "4" [] n = 5 -> "5" [] n = 6 -> "6" [] n = 7 -> "7"
      [] n = 8 -> "8" [] n = 9 -> "9"

RECURSIVE IntStr(_)
IntStr(n) ==
    IF n < 0 THEN "-" \o IntStr(0 - n)
    ELSE IF n < 10 THEN Digit(n)
    ELSE IntStr(n \div 10) \o Digit(n % 10)

\* repr(v) and str(v) of the built-in types (dict-free values)
RECURSIVE Repr(_)
RECURSIVE ReprItems(_)
ReprItems(items) ==
    IF items = <<>> THEN ""
    ELSE IF Len(items) = 1 THEN Repr(items[1])
    ELSE Repr(items[1]) \o ", " \o ReprItems(Tail(items))

Repr(v) ==
    CASE v.t = "str" -> "'" \o v.s \o "'"
      [] v.t = "None" -> "None"
      [] v.t = "bool" -> IF v.b THEN "True" ELSE "False"
      [] v.t = "int" -> IntStr(v.n)
      [] v.t = "list" -> "[" \o ReprItems(v.items) \o "]"
      [] v.t = "obj" -> v.repr

ToStr(v) == IF v.t = "str" THEN v.s ELSE Repr(v)

\* json.dumps(v) succeeds iff every leaf is of a JSON-encodable type
RECURSIVE JsonSerializable(_)
JsonSerializable(v) ==
    CASE v.t \in {"str", "None", "bool", "int"} -> TRUE
      [] v.t = "list" -> \A i \in 1..Len(v.items) : JsonSerializable(v.items[i])
      [] v.t = "dict" -> \A k \in DOMAIN v.d : JsonSerializable(v.d[k])
      [] OTHER -> FALSE

JsonDumps(v) ==
    IF JsonSerializable(v) THEN Ok(PyStr("<json>"))
    ELSE Raise(Exc("TypeError", "Exception", "Object is not JSON serializable"))

\* ------------------------------------------------- generative backend (LLM)
\* What one call of _client.chat.completions.create can produce: an error of
\* the client library, a message without content, or a content text.
BackendError == Exc("APIConnectionError", "Exception", "Connection error.")

RespError == [kind |-> "error", content |-> <<>>]
RespNoContent == [kind |-> "null_content", content |-> <<>>]
RespText(segs) == [kind |-> "text", content |-> segs]
NoResp == [kind |-> "none", content |-> <<>>]

\* JSON documents the backend may answer with
DocEmpty == "{}"
DocView == "{\"can_be_answered\": false}"
DocPlan == "{\"execution_plan\": []}"
DocArray == "[]"
DocNull == "null"
DocString == "\"not applicable\""
DocNumber == "42"
DocProse == "I cannot answer that."

JsonContents ==
    { <<DocView>>, <<"\n", DocPlan, "\n">>, <<" ", DocEmpty>>, <<DocArray>>,
      <<DocNull>>, <<DocString>>, <<DocNumber>>, <<DocProse>>, <<" ">> }

WriterContents ==
    { <<"The cohort has 12 patients.">>, <<"\n", "The analysis failed.", " ">>,
      <<" ", "\n">>, <<>> }

Responses(contents) == {RespError, RespNoContent} \cup {RespText(c) : c \in contents}

\* _chat_completion: resp.choices[0].message.content.strip()
ChatCompletion(resp) ==
    CASE resp.kind = "error" -> Raise(BackendError)
      [] resp.kind = "null_content" ->
            Raise(Exc("AttributeError", "Exception",
                      "'NoneType' object has no attribute 'strip'"))
      [] resp.kind = "text" -> Ok(Strip(resp.content))

\* json.loads on the documents above; any other text is not JSON
JsonLoads(text) ==
    CASE text = DocEmpty -> Ok(PyDict(EmptyMap))
      [] text = DocView -> Ok(PyDict("can_be_answered" :> PyBool(FALSE)))
      [] text = DocPlan -> Ok(PyDict("execution_plan" :> PyList(<<>>)))
      [] text = DocArray -> Ok(PyList(<<>>))
      [] text = DocNull -> Ok(PyNone)
      [] text = DocString -> Ok(PyStr("not applicable"))
      [] text = DocNumber -> Ok(PyInt(42))
      [] OTHER -> Raise(Exc("JSONDecodeError", "Exception", "Expecting value"))

\* variant of SafeJsonParse that hands back the raw text unwrapped
SafeJsonParseUnwrapped(text) ==
    LET r == JsonLoads(text) IN
    IF r.ok THEN r.v ELSE PyStr(text)

\* _safe_json_parse: try json.loads, on any Exception wrap the raw text
SafeJsonParse(text) ==
    LET r == JsonLoads(text) IN
    IF r.ok THEN r.v
    ELSE PyDict("raw_text" :> PyStr(text) @@ "parse_error" :> PyBool(TRUE))

\* obj[key] = value: only a dict accepts a string key
SetItem(obj, key, value) ==
    IF obj.t = "dict" THEN Ok(PyDict(key :> value @@ obj.d))
    ELSE Raise(Exc("TypeError", "Exception",
                   "object does not support item assignment"))

ONCOLOGIST_PROMPT_ID == "oncologist_v1"
PLANNER_PROMPT_ID == "planner_v1"

\* generate_oncologist_view(user_query) given the backend's response
GenerateOncologistView(user_query, resp) ==
    LET raw == ChatCompletion(resp) IN
    IF ~raw.ok THEN raw
    ELSE SetItem(SafeJsonParse(raw.v), "_prompt_id", PyStr(ONCOLOGIST_PROMPT_ID))

\* generate_planner_plan(user_query, oncologist_view) given the response
GeneratePlannerPlan(user_query, oncologist_view, resp) ==
    LET dumped == JsonDumps(oncologist_view)
        raw == ChatCompletion(resp)
    IN  IF ~dumped.ok THEN dumped
        ELSE IF ~raw.ok THEN raw
        ELSE SetItem(SafeJsonParse(raw.v), "_prompt_id", PyStr(PLANNER_PROMPT_ID))

\* generate_writer_answer(...) given the response: the three json.dumps calls
\* come first, then the backend call; the text is returned unparsed
GenerateWriterAnswer(user_query, oncologist_view, plan, execution_result, resp) ==
    LET d1 == JsonDumps(oncologist_view)
        d2 == JsonDumps(plan)
        d3 == JsonDumps(execution_result)
        raw == ChatCompletion(resp)
    IN  IF ~d1.ok THEN d1
        ELSE IF ~d2.ok THEN d2
        ELSE IF ~d3.ok THEN d3
        ELSE IF ~raw.ok THEN raw
        ELSE Ok(PyStr(raw.v))

\* ------------------------------------------------ generated analysis code
\* The text of a generated program: s names the source text, len is its
\* length in characters.
CodeStr(src, len) == [t |-> "str", s |-> src, len |-> len]

CODE_EXCERPT_LIMIT == 4000

\* code[:4000]
Truncate(code) ==
    CodeStr(code.s, IF code.len <= CODE_EXCERPT_LIMIT THEN code.len
                    ELSE CODE_EXCERPT_LIMIT)

\* step results a generated run_analysis() may build
StepOk ==
    PyDict("step_id" :> PyInt(1) @@ "status" :> PyStr("success")
           @@ "row_count" :> PyInt(12))
StepNumpy ==
    PyDict("step_id" :> PyInt(1) @@ "status" :> PyStr("success")
           @@ "row_count" :> PyObj("numpy.int64", "12"))

\* A generated program: its source text and what Python does with it.
\*   top   - the exception raised while exec() evaluates the source, or NoExc
\*   entry - what the name run_analysis is bound to afterwards
\*   call  - what the body of run_analysis() does once its names resolve
\*   binds - the names the source binds at its top level besides run_analysis
\*   refers - the names the body of run_analysis reads that are not its own
ProgramWithNames(src, len, top, entry, call, binds, refers) ==
    [src |-> src, len |-> len, top |-> top, entry |-> entry, call |-> call,
     binds |-> binds, refers |-> refers]

\* a program whose run_analysis reads no name from outside its body
Program(src, len, top, entry, call) ==
    ProgramWithNames(src, len, top, entry, call, {}, {})

Returning(src, len, v) == Program(src, len, NoExc, "function", Ok(v))

\* programs whose run_analysis() returns something that is not a dict
NonDictPrograms ==
    { Returning("def run_analysis(): return 'done'", 34, PyStr("done")),
      Returning("def run_analysis(): pass", 24, PyNone),
      Returning("def run_analysis(): return [1, 'a']", 36,
                PyList(<<PyInt(1), PyStr("a")>>)),
      Returning("def run_analysis(): return 307", 30, PyInt(307)) }

\* programs whose run_analysis() returns a dict
DictPrograms ==
    { Returning("def run_analysis(): return {}", 29, PyDict(EmptyMap)),
      Returning("def run_analysis(): return {steps, overall_status}", 900,
                PyDict("steps" :> PyList(<<StepOk>>)
                       @@ "overall_status" :> PyStr("success"))),
      Returning("def run_analysis(): return {steps, overall_status, notes, error}", 4001,
                PyDict("steps" :> PyList(<<StepOk>>)
                       @@ "overall_status" :> PyStr("partial_success")
                       @@ "notes" :> PyStr("all good")
                       @@ "error" :> PyStr("step 2 failed"))),
      Returning("def run_analysis(): return {overall_status, error}", 700,
                PyDict("overall_status" :> PyStr("failed")
                       @@ "error" :> PyStr("no such column"))),
      Returning("def run_analysis(): return {steps: [{row_count: df[col].count()}]}", 800,
                PyDict("steps" :> PyList(<<StepNumpy>>)
                       @@ "overall_status" :> PyStr("success"))),
      Returning("def run_analysis(): return {steps: [], overall_status: 'done'}", 60,
                PyDict("steps" :> PyList(<<>>) @@ "overall_status" :> PyStr("done"))),
      Returning("def run_analysis(): return {steps: None, overall_status: Status.OK}", 66,
                PyDict("steps" :> PyNone
                       @@ "overall_status" :> PyObj("Status", "<Status.OK>"))) }

ReturningPrograms == NonDictPrograms \cup DictPrograms

FaultyPrograms ==
    { Program("def run_analysis(:", 18, Exc("SyntaxError", "Exception", "invalid syntax"),
              "absent", Raise(NoExc)),
      Program("raise SystemExit(1)", 19, Exc("SystemExit", "BaseException", "1"),
              "absent", Raise(NoExc)),
      Program("def analyse(): return {}", 24, NoExc, "absent", Raise(NoExc)),
      Program("run_analysis = 5", 16, NoExc, "value", Raise(NoExc)),
      Program("def run_analysis(): raise ValueError('bad column')", 5000, NoExc,
              "function", Raise(Exc("ValueError", "Exception", "bad column"))),
      Program("def run_analysis(): raise SystemExit(2)", 39, NoExc,
              "function", Raise(Exc("SystemExit", "BaseException", "2"))) }

\* programs that bind a name at their top level or read a builtin
TopLevelPrograms ==
    { ProgramWithNames("import pandas as pd; def run_analysis(): return {steps: [], n: len(pd.DataFrame())}",
                       120, NoExc, "function",
                       Ok(PyDict("steps" :> PyList(<<>>) @@ "n" :> PyInt(0))),
                       {"pd"}, {"pd", "len"}),
      ProgramWithNames("STATUS = 'success'; def summarize(): ...; def run_analysis(): return summarize()",
                       150, NoExc, "function",
                       Ok(PyDict("steps" :> PyList(<<StepOk>>)
                                 @@ "overall_status" :> PyStr("success"))),
                       {"STATUS", "summarize"}, {"summarize"}),
      ProgramWithNames("def run_analysis(): import pandas as pd; return {n: len([])}",
                       70, NoExc, "function",
                       Ok(PyDict("n" :> PyInt(0))),
                       {}, {"len"}) }

Programs == ReturningPrograms \cup FaultyPrograms \cup TopLevelPrograms

SourceLen(src) == (CHOOSE p \in Programs : p.src = src).len
ProgramOf(code) == CHOOSE p \in Programs : p.src = code.s

CodeContents == { <<p.src>> : p \in Programs } \cup { <<"\n", "run_analysis = 5", "\n">> }

\* generate_analyst_code(...) given the response; the final raw.strip() acts
\* on text _chat_completion has already stripped
GenerateAnalystCode(user_query, oncologist_view, plan, resp) ==
    LET d1 == JsonDumps(oncologist_view)
        d2 == JsonDumps(plan)
        raw == ChatCompletion(resp)
    IN  IF ~d1.ok THEN d1
        ELSE IF ~d2.ok THEN d2
        ELSE IF ~raw.ok THEN raw
        ELSE Ok(CodeStr(raw.v, SourceLen(raw.v)))

\* the names of the builtins module the programs read
Builtins == {"len"}

\* exec(code, {}, local_ns), the run_analysis check, and the call: the
\* top-level bindings go to local_ns, while a function defined by the code
\* has the globals dict of the exec call, which stays empty, as its global
\* namespace; a name its body reads is looked up there, then in builtins
ExecGenerated(code) ==
    LET p == ProgramOf(code)
        exec_globals == {}
        local_ns == p.binds \cup (IF p.entry = "absent" THEN {} ELSE {"run_analysis"})
        unresolved == p.refers \ (exec_globals \cup Builtins)
    IN
    IF p.top # NoExc THEN Raise(p.top)
    ELSE IF "run_analysis" \notin local_ns \/ p.entry # "function"
         THEN Raise(Exc("RuntimeError", "Exception",
                        "Generated code did not define run_analysis()"))
    ELSE IF unresolved # {}
         THEN Raise(Exc("NameError", "Exception",
                        "name '" \o (CHOOSE n \in unresolved : TRUE) \o "' is not defined"))
    ELSE p.call

\* ------------------------------------------------------ analyst_node_smart
\* variant of SynthesisFailedPatch that loses the failure message
SynthesisFailedPatchNoError(e) ==
    "execution_result" :>
        PyDict("steps" :> PyList(<<>>)
               @@ "overall_status" :> PyStr("failed")
               @@ "notes" :> PyStr("Code generation for Analyst failed."))
    @@ "analyst_error" :> PyStr(e.msg)

\* phase 1 failed: generate_analyst_code raised e
SynthesisFailedPatch(e) ==
    "execution_result" :>
        PyDict("steps" :> PyList(<<>>)
               @@ "overall_status" :> PyStr("failed")
               @@ "notes" :> PyStr("Code generation for Analyst failed.")
               @@ "error" :> PyStr(e.msg))
    @@ "analyst_error" :> PyStr(e.msg)

\* phase 2 failed: exec or run_analysis() raised e
ExecutionFailedPatch(e, code) ==
    "execution_result" :>
        PyDict("steps" :> PyList(<<>>)
               @@ "overall_status" :> PyStr("failed")
               @@ "notes" :> PyStr("Execution of generated analysis code failed.")
               @@ "error" :> PyStr(e.msg)
               @@ "generated_code" :> Truncate(code))
    @@ "analyst_generated_code" :> Truncate(code)
    @@ "analyst_error" :> PyStr(e.msg)

\* variant of NotADictResult that keeps repr(result) instead of str(result)
NotADictResultRepr(result, code) ==
    PyDict("steps" :> PyList(<<>>)
           @@ "overall_status" :> PyStr("failed")
           @@ "notes" :> PyStr("Generated analysis code did not return a dict.")
           @@ "raw_return" :> PyStr(Repr(result))
           @@ "generated_code" :> Truncate(code))

\* phase 3 on a result that is not a dict
NotADictResult(result, code) ==
    PyDict("steps" :> PyList(<<>>)
           @@ "overall_status" :> PyStr("failed")
           @@ "notes" :> PyStr("Generated analysis code did not return a dict.")
           @@ "raw_return" :> PyStr(ToStr(result))
           @@ "generated_code" :> Truncate(code))

\* variant of NormalizedResult that copies the returned dict and adds notes
NormalizedResultKeepAll(result) ==
    PyDict("notes" :> PyStr("Analyst executed a dynamically generated analysis script.")
           @@ result.d)

\* phase 3 on a dict
NormalizedResult(result) ==
    PyDict("steps" :> Get(result.d, "steps", PyList(<<>>))
           @@ "overall_status" :> Get(result.d, "overall_status", PyStr("success"))
           @@ "notes" :> PyStr("Analyst executed a dynamically generated analysis script."))

NormalizePatch(result, code) ==
    "execution_result" :>
        (IF result.t # "dict" THEN NotADictResult(result, code)
         ELSE NormalizedResult(result))
    @@ "analyst_generated_code" :> Truncate(code)

\* what the execution phase did in a run
NotExecuted == [attempted |-> FALSE, res |-> Raise(NoExc)]
Executed(res) == [attempted |-> TRUE, res |-> res]

\* outcome of a node: the patch it returns, or the exception it lets through
Returns(patch, exec) == [raised |-> NoExc, patch |-> patch, exec |-> exec]
Propagates(e, exec) == [raised |-> e, patch |-> EmptyMap, exec |-> exec]

\* analyst_node_smart(state) given the backend's response to the code request
AnalystNodeSmart(st, resp) ==
    LET oncologist_view == Get(st, "oncologist_view", PyDict(EmptyMap))
        plan == Get(st, "plan", PyDict(EmptyMap))
        gen == GenerateAnalystCode(st["user_query"], oncologist_view, plan, resp)
    IN  IF ~gen.ok
        THEN IF CaughtByExceptException(gen.exc)
             THEN Returns(SynthesisFailedPatch(gen.exc), NotExecuted)
             ELSE Propagates(gen.exc, NotExecuted)
        ELSE LET code == gen.v
                 res == ExecGenerated(code)
             IN  IF ~res.ok
                 THEN IF CaughtByExceptException(res.exc)
                      THEN Returns(ExecutionFailedPatch(res.exc, code), Executed(res))
                      ELSE Propagates(res.exc, Executed(res))
                 ELSE Returns(NormalizePatch(res.v, code), Executed(res))

\* ------------------------------------------- oncologist, planner, writer
OncologistNode(st, resp) ==
    LET view == GenerateOncologistView(st["user_query"], resp) IN
    IF view.ok THEN Returns("oncologist_view" :> view.v, NotExecuted)
    ELSE Propagates(view.exc, NotExecuted)

PlannerNode(st, resp) ==
    LET plan == GeneratePlannerPlan(st["user_query"], st["oncologist_view"], resp) IN
    IF plan.ok THEN Returns("plan" :> plan.v, NotExecuted)
    ELSE Propagates(plan.exc, NotExecuted)

\* variant of WriterNode that also defaults an unset field to None
WriterNodeDefaulting(st, resp) ==
    LET final_answer ==
            GenerateWriterAnswer(st["user_query"],
                                 Get(st, "oncologist_view", PyDict(EmptyMap)),
                                 Get(st, "plan", PyDict(EmptyMap)),
                                 Get(st, "execution_result", PyDict(EmptyMap)),
                                 resp)
    IN  IF final_answer.ok
        THEN Returns("final_answer" :> final_answer.v
                     @@ "analyst_error" :> Get(st, "analyst_error", PyNone), NotExecuted)
        ELSE Propagates(final_answer.exc, NotExecuted)

WriterNode(st, resp) ==
    LET final_answer ==
            GenerateWriterAnswer(st["user_query"],
                                 Get(st, "oncologist_view", PyDict(EmptyMap)),
                                 Get(st, "plan", PyDict(EmptyMap)),
                                 Get(st, "execution_result", PyDict(EmptyMap)),
                                 resp)
    IN  IF final_answer.ok THEN Returns("final_answer" :> final_answer.v, NotExecuted)
        ELSE Propagates(final_answer.exc, NotExecuted)

\* ------------------------------------------------------------- the graph
\* variant of Edge that routes the planner straight to the writer
EdgeSkipAnalyst(node) ==
    CASE node = "oncologist" -> "planner"
      [] node = "planner" -> "writer"
      [] node = "analyst" -> "writer"
      [] node = "writer" -> "END"

\* graph.add_edge(...): the successor of each node
Edge(node) ==
    CASE node = "oncologist" -> "planner"
      [] node = "planner" -> "analyst"
      [] node = "analyst" -> "writer"
      [] node = "writer" -> "END"

EntryPoint == "oncologist"

\* StateGraph(ChatState): a node's patch overwrites the keys it names
Merge(st, patch) == patch @@ st

Nodes == {"oncologist", "planner", "analyst", "writer"}

\* analyst_node_dumb(state): the unimplemented fallback
AnalystNodeDumb(st) ==
    Returns("execution_result" :>
                PyDict("steps" :> PyList(<<>>)
                       @@ "overall_status" :> PyStr("failed")
                       @@ "notes" :> PyStr("Dumb analyst not implemented; enable use_smart_analyst=True.")),
            NotExecuted)

\* app.py builds the graph with use_smart_analyst=True
USE_SMART_ANALYST == TRUE

\* the node function bound to each name, applied to the backend's response
RunNode(node, st, resp) ==
    CASE node = "oncologist" -> OncologistNode(st, resp)
      [] node = "planner" -> PlannerNode(st, resp)
      [] node = "analyst" -> IF USE_SMART_ANALYST THEN AnalystNodeSmart(st, resp)
                             ELSE AnalystNodeDumb(st)
      [] node = "writer" -> WriterNode(st, resp)

NodeResponses(node) ==
    CASE node \in {"oncologist", "planner"} -> Responses(JsonContents)
      [] node = "analyst" -> Responses(CodeContents)
      [] node = "writer" -> Responses(WriterContents)

\* ========================================================= cohort engine
\* (src/src/langgraph_rag/tools/cohort_query.py)
\* Text handled character by character is a sequence of one-character
\* strings.  A cell of a DataFrame is a string, an int, a float with an
\* integral value, or NaN (a missing value).
CStr(chars) == [t |-> "str", c |-> chars]
CInt(n) == [t |-> "int", n |-> n]
CFloat(n) == [t |-> "float", n |-> n]
CNaN == [t |-> "nan"]

\* a list value of a filter
CList(items) == [t |-> "list", items |-> items]

DigitChars == {"0", "1", "2", "3", "4", "5", "6", "7", "8", "9"}

\* the decimal digits of a natural number
RECURSIVE NatChars(_)
NatChars(n) == IF n < 10 THEN <<Digit(n)>> ELSE NatChars(n \div 10) \o <<Digit(n % 10)>>

DigitValue(c) == CHOOSE d \in 0..9 : Digit(d) = c

\* int(text) of a non-empty all-digit text
RECURSIVE NatOfChars(_)
NatOfChars(chars) ==
    IF Len(chars) = 1 THEN DigitValue(chars[1])
    ELSE 10 * NatOfChars(SubSeq(chars, 1, Len(chars) - 1)) + DigitValue(chars[Len(chars)])

\* str(v) / Series.astype(str): 65 -> "65", 65.0 -> "65.0", NaN -> "nan"
StrOf(v) ==
    CASE v.t = "str" -> v.c
      [] v.t = "int" -> NatChars(v.n)
      [] v.t = "float" -> NatChars(v.n) \o <<".", "0">>
      [] v.t = "nan" -> <<"n", "a", "n">>

\* Python equality of two cell values: numbers compare by value across
\* int and float, text only equals text, NaN equals nothing
PyEq(a, b) ==
    CASE a.t = "str" /\ b.t = "str" -> a.c = b.c
      [] a.t \in {"int", "float"} /\ b.t \in {"int", "float"} -> a.n = b.n
      [] OTHER -> FALSE

\* str.lower() on the letters that occur in the data
LowerChar(c) ==
    CASE c = "I" -> "i" [] c = "V" -> "v" [] c = "P" -> "p" [] c = "X" -> "x"
      [] OTHER -> c

LowerText(chars) == [i \in 1..Len(chars) |-> LowerChar(chars[i])]

\* needle occurs in hay as a contiguous run of characters
ContainsText(hay, needle) ==
    \E i \in 0..(Len(hay) - Len(needle)) : SubSeq(hay, i + 1, i + Len(needle)) = needle

\* re.compile(pat) for patterns over letters, digits, ".", "+" and "(" of
\* at most two characters: "(" never finds its ")", "+" needs an atom in
\* front of it; the result is the sequence of atoms (character, repeated?)
ReError(msg) == Exc("re.error", "Exception", msg)

RECURSIVE RegexCompile(_)
RegexCompile(pat) ==
    IF pat = <<>> THEN [ok |-> TRUE, atoms |-> <<>>, exc |-> NoExc]
    ELSE IF Head(pat) = "(" THEN
        [ok |-> FALSE, atoms |-> <<>>, exc |-> ReError("missing ), unterminated subpattern")]
    ELSE IF Head(pat) = "+" THEN
        [ok |-> FALSE, atoms |-> <<>>, exc |-> ReError("nothing to repeat")]
    ELSE LET plus == Len(pat) >= 2 /\ pat[2] = "+"
             rest == RegexCompile(SubSeq(pat, IF plus THEN 3 ELSE 2, Len(pat)))
         IN  IF ~rest.ok THEN rest
             ELSE [ok |-> TRUE,
                   atoms |-> <<[c |-> Head(pat), plus |-> plus]>> \o rest.atoms,
                   exc |-> NoExc]

\* one atom against one character under re.IGNORECASE; "." is any character
AtomMatches(atom, ch) == atom.c = "." \/ LowerChar(atom.c) = LowerChar(ch)

\* the atoms match a prefix of text
RECURSIVE MatchHere(_, _)
MatchHere(atoms, text) ==
    IF atoms = <<>> THEN TRUE
    ELSE IF text = <<>> THEN FALSE
    ELSE /\ AtomMatches(Head(atoms), Head(text))
         /\ \/ MatchHere(Tail(atoms), Tail(text))
            \/ (Head(atoms).plus /\ MatchHere(atoms, Tail(text)))

\* pattern.search(text) is not None
RegexSearch(atoms, text) ==
    \E i \in 1..(Len(text) + 1) : MatchHere(atoms, SubSeq(text, i, Len(text)))

\* a DataFrame: its column labels in order and its rows (column -> cell)
DataFrame(columns, rows) == [columns |-> columns, rows |-> rows]

ColumnsOf(df) == {df.columns[i] : i \in 1..Len(df.columns)}

\* df[mask]
RECURSIVE SelectRows(_, _)
SelectRows(rows, mask) ==
    IF rows = <<>> THEN <<>>
    ELSE (IF Head(mask) THEN <<Head(rows)>> ELSE <<>>) \o SelectRows(Tail(rows), Tail(mask))

\* the loop of _apply_filter over filter_spec.items(), in dict order
RECURSIVE FilterMask(_, _, _)
FilterMask(df, entries, mask) ==
    IF entries = <<>> THEN Ok(mask)
    ELSE LET col == Head(entries).col
             val == Head(entries).val
         IN  IF col \notin ColumnsOf(df)
             THEN FilterMask(df, Tail(entries), [i \in 1..Len(df.rows) |-> FALSE])
             ELSE IF val.t = "list"
             THEN FilterMask(df, Tail(entries),
                      [i \in 1..Len(df.rows) |->
                          mask[i] /\ \E j \in 1..Len(val.items) :
                                        StrOf(df.rows[i][col]) = StrOf(val.items[j])])
             ELSE LET re == RegexCompile(StrOf(val)) IN
                  IF ~re.ok THEN Raise(re.exc)
                  ELSE FilterMask(df, Tail(entries),
                           [i \in 1..Len(df.rows) |->
                               mask[i] /\ RegexSearch(re.atoms, StrOf(df.rows[i][col]))])

\* _apply_filter(df, filter_spec); filter_spec is the sequence of its items
ApplyFilter(df, filter_spec) ==
    IF filter_spec = <<>> THEN Ok(df)
    ELSE LET m == FilterMask(df, filter_spec, [i \in 1..Len(df.rows) |-> TRUE]) IN
         IF ~m.ok THEN m
         ELSE Ok(DataFrame(df.columns, SelectRows(df.rows, m.v)))

\* ------------------------------------------------- tables on disk, loading
\* a row from the column labels and the cells in column order
Row(columns, cells) ==
    [c \in {columns[i] : i \in 1..Len(columns)} |->
        cells[CHOOSE i \in 1..Len(columns) : columns[i] = c]]

PatientsColumns == <<"PATIENT_ID", "Stage", "TMB", "Age", "Score">>

\* pd.read_csv gives TMB an int column, Age a float column (it has a
\* missing value) and Score an object column (text and a missing value)
PatientsFrame ==
    DataFrame(PatientsColumns,
        << Row(PatientsColumns, <<CStr(<<"P", "1">>), CStr(<<"I", "V">>), CInt(12), CFloat(65), CStr(<<"5">>)>>),
           Row(PatientsColumns, <<CStr(<<"P", "2">>), CStr(<<"I", "I">>), CInt(3), CNaN, CStr(<<"h", "i">>)>>),
           Row(PatientsColumns, <<CStr(<<"P", "3">>), CStr(<<"I", "V">>), CInt(7), CFloat(70), CNaN>>) >>)

ClinicalColumns == <<"Patient ID", "Stage", "TMB">>

ClinicalFrame ==
    DataFrame(ClinicalColumns,
        << Row(ClinicalColumns, <<CStr(<<"X", "1">>), CStr(<<"I">>), CInt(4)>>),
           Row(ClinicalColumns, <<CStr(<<"X", "1">>), CStr(<<"I", "V">>), CInt(9)>>) >>)

\* the files that exist, by resolved path
PatientsPath == "/app/data/patients.tsv"
ClinicalPath == "/app/data/clinical.tsv"
MissingPath == "/app/data/missing.tsv"

Disk == (PatientsPath :> PatientsFrame) @@ (ClinicalPath :> ClinicalFrame)

\* the file a path string names: two spellings of one path name one file
PathSpellings ==
    {"data/patients.tsv", "./data/patients.tsv", "data/clinical.tsv", "data/missing.tsv"}

Resolve(path) ==
    CASE path \in {"data/patients.tsv", "./data/patients.tsv"} -> PatientsPath
      [] path = "data/clinical.tsv" -> ClinicalPath
      [] OTHER -> MissingPath

FileNotFoundError(path) == Exc("FileNotFoundError", "Exception", path)

\* functools.lru_cache(maxsize=16)
LRU_MAXSIZE == 16

\* _load_table(path): the cache is keyed by the argument as passed, holds
\* its entries least recently used first, and stores no raised call
LoadTable(path, lru, reads) ==
    IF \E i \in 1..Len(lru) : lru[i].key = path
    THEN LET i == CHOOSE j \in 1..Len(lru) : lru[j].key = path IN
         [ok |-> TRUE, v |-> lru[i].value, exc |-> NoExc, reads |-> reads,
          lru |-> SubSeq(lru, 1, i - 1) \o SubSeq(lru, i + 1, Len(lru)) \o <<lru[i]>>]
    ELSE IF Resolve(path) \notin DOMAIN Disk
    THEN [ok |-> FALSE, v |-> PyNone, exc |-> FileNotFoundError(path),
          reads |-> reads, lru |-> lru]
    ELSE LET df == Disk[Resolve(path)]
             grown == Append(lru, [key |-> path, value |-> df])
         IN  [ok |-> TRUE, v |-> df, exc |-> NoExc,
              reads |-> [reads EXCEPT ![Resolve(path)] = @ + 1],
              lru |-> IF Len(grown) > LRU_MAXSIZE THEN Tail(grown) ELSE grown]

\* TableConfig.id_column's default
DEFAULT_ID_COLUMN == "patient_id"

\* TableConfig(name, path, id_column)
TableConfigId(name, path, id_column) ==
    [name |-> name, path |-> path, id_column |-> id_column]

\* TableConfig(name, path)
TableConfig(name, path) == TableConfigId(name, path, DEFAULT_ID_COLUMN)

\* infer_text_columns(df, table_cfg) with text_columns unset
InferTextColumns(df, table_cfg) ==
    SelectSeq(df.columns, LAMBDA c : c # table_cfg.id_column)

\* _load_table_rows_as_text(table_cfg): one doc per row, its text the
\* "col: val" parts of the text columns that are not missing
LoadTableRowsAsText(table_cfg) ==
    IF Resolve(table_cfg.path) \notin DOMAIN Disk
    THEN Raise(FileNotFoundError("TSV file not found: " \o table_cfg.path))
    ELSE LET df == Disk[Resolve(table_cfg.path)] IN
         IF table_cfg.id_column \notin ColumnsOf(df)
         THEN Raise(Exc("ValueError", "Exception",
                        "id_column='" \o table_cfg.id_column
                            \o "' not in columns for table '" \o table_cfg.name \o "'"))
         ELSE LET text_cols == InferTextColumns(df, table_cfg) IN
              Ok([i \in 1..Len(df.rows) |->
                    [id |-> StrOf(df.rows[i][table_cfg.id_column]),
                     text |-> SelectSeq(
                                 [k \in 1..Len(text_cols) |->
                                     [col |-> text_cols[k], val |-> df.rows[i][text_cols[k]]]],
                                 LAMBDA part : part.val # CNaN),
                     metadata |-> [source |-> "msk_chord",
                                   table_name |-> table_cfg.name,
                                   id_column |-> table_cfg.id_column,
                                   row_id |-> StrOf(df.rows[i][table_cfg.id_column]),
                                   row_index |-> i - 1]]])

\* the loop of load_tables_from_config over config.tables
RECURSIVE LoadTablesFromConfig(_, _, _, _)
LoadTablesFromConfig(table_configs, loaded, lru, reads) ==
    IF table_configs = <<>>
    THEN [ok |-> TRUE, tables |-> loaded, exc |-> NoExc, lru |-> lru, reads |-> reads]
    ELSE LET t == Head(table_configs)
             r == LoadTable(t.path, lru, reads)
         IN  IF ~r.ok
             THEN [ok |-> FALSE, tables |-> loaded, exc |-> r.exc,
                   lru |-> r.lru, reads |-> r.reads]
             ELSE LoadTablesFromConfig(Tail(table_configs),
                      (t.name :> r.v) @@ loaded, r.lru, r.reads)

\* ------------------------------------------------------ plan step execution
\* a step of a plan; an absent "tables_used" or "filter" is the empty one
\* (step.get(...) or [] / or {}), an absent "feature" is PyNone
PlanStep(id, tool, tables_used, filter, feature) ==
    [id |-> id, name |-> tool, tool |-> tool, tables_used |-> tables_used,
     filter |-> filter, feature |-> feature]

\* without the alias: the step's first table name is taken as it is
ResolveTableNameNoAlias(tables_used, tables) ==
    IF tables_used = <<>> THEN PyNone ELSE PyStr(Head(tables_used))

\* tables_used[0] if tables_used else None, then the alias "clinical" ->
\* "patients" when a table "patients" is registered
ResolveTableName(tables_used, tables) ==
    LET table_name == IF tables_used = <<>> THEN PyNone ELSE PyStr(Head(tables_used)) IN
    IF table_name = PyStr("clinical") /\ "patients" \in DOMAIN tables
    THEN PyStr("patients")
    ELSE table_name

\* not table_name or table_name not in tables
UnknownTable(table_name, tables) ==
    \/ table_name = PyNone
    \/ table_name.s = ""
    \/ table_name.s \notin DOMAIN tables

\* f"{table_name}"
NameText(table_name) == IF table_name = PyNone THEN "None" ELSE table_name.s

\* "Patient ID" in c or c.lower() == "patient_id", over the labels in use
IsPatientIdColumn(c) == c \in {"Patient ID", "PATIENT_ID", "patient_id"}

\* Series.dropna() of one column, as a sequence of cells
RECURSIVE DropNa(_, _)
DropNa(rows, col) ==
    IF rows = <<>> THEN <<>>
    ELSE (IF Head(rows)[col] = CNaN THEN <<>> ELSE <<Head(rows)[col]>>) \o DropNa(Tail(rows), col)

\* .head(5)
SAMPLE_IDS == 5

\* the context is handed back as it came
UpdateContextSkipped(context, filtered, table_name, pid_col) == context

\* context["current_cohort"] = filtered, and the two entries that go with it
UpdateContext(context, filtered, table_name, pid_col) ==
    ("current_cohort" :> filtered)
        @@ ("current_cohort_table" :> PyStr(table_name))
        @@ ("current_cohort_patient_id_col" :> pid_col)
        @@ context

\* execute_cohort_filter_step(step, tables, context)
ExecuteCohortFilterStep(step, tables, context) ==
    LET table_name == ResolveTableName(step.tables_used, tables) IN
    IF UnknownTable(table_name, tables)
    THEN [result |-> [step_id |-> step.id, name |-> step.name, tool |-> "cohort_filter",
                      status |-> "failed",
                      error |-> "Unknown table: " \o NameText(table_name)],
          exc |-> NoExc, context |-> context]
    ELSE LET df == tables[table_name.s]
             filtered == ApplyFilter(df, step.filter)
         IN  IF ~filtered.ok
             THEN [result |-> PyNone, exc |-> filtered.exc, context |-> context]
             ELSE LET patient_id_cols == SelectSeq(df.columns, IsPatientIdColumn)
                      has_pid == patient_id_cols # <<>>
                      ids == IF has_pid THEN DropNa(filtered.v.rows, Head(patient_id_cols))
                             ELSE <<>>
                  IN  [result |->
                          [step_id |-> step.id, name |-> step.name,
                           tool |-> "cohort_filter", status |-> "success",
                           table_used |-> table_name.s,
                           filter_applied |-> step.filter,
                           row_count |-> Len(filtered.v.rows),
                           patient_count |->
                               IF has_pid
                               THEN PyInt(Cardinality({ids[i] : i \in 1..Len(ids)}))
                               ELSE PyNone,
                           patient_id_column |->
                               IF has_pid THEN PyStr(Head(patient_id_cols)) ELSE PyNone,
                           sample_patient_ids |->
                               [i \in 1..(IF Len(ids) < SAMPLE_IDS THEN Len(ids) ELSE SAMPLE_IDS)
                                   |-> StrOf(ids[i])]],
                       exc |-> NoExc,
                       context |->
                           UpdateContext(context, filtered.v, table_name.s,
                               IF has_pid THEN PyStr(Head(patient_id_cols)) ELSE PyNone)]

\* ------------------------------------------------------------ descriptives
\* exact fractions stand for the floats of the metrics
Rat(num, den) == [num |-> num, den |-> den]
RatEq(a, b) == a.num * b.den = b.num * a.den

AllDigits(chars) == chars # <<>> /\ \A i \in 1..Len(chars) : chars[i] \in DigitChars

\* pd.to_numeric(series, errors="coerce").dropna(), as a sequence of numbers
RECURSIVE ToNumericDropNa(_, _)
ToNumericDropNa(rows, col) ==
    IF rows = <<>> THEN <<>>
    ELSE LET cell == Head(rows)[col]
             rest == ToNumericDropNa(Tail(rows), col)
         IN  CASE cell.t \in {"int", "float"} -> <<cell.n>> \o rest
               [] cell.t = "str" /\ AllDigits(cell.c) -> <<NatOfChars(cell.c)>> \o rest
               [] OTHER -> rest

RECURSIVE Sum(_)
Sum(values) == IF values = <<>> THEN 0 ELSE Head(values) + Sum(Tail(values))

RECURSIVE SumSq(_)
SumSq(values) == IF values = <<>> THEN 0 ELSE Head(values) * Head(values) + SumSq(Tail(values))

\* Series.std(), ddof = 1: NaN for fewer than two values, else the square
\* root of sum((x - mean)^2) / (n - 1)
SeriesStd(values) ==
    LET n == Len(values) IN
    IF n < 2 THEN CNaN
    ELSE [t |-> "float",
          sqrt_of |-> Rat(n * SumSq(values) - Sum(values) * Sum(values), n * (n - 1))]

\* Series.quantile(q / 4), linear interpolation between order statistics
Quantile(values, q) ==
    LET sorted == SortSeq(values, LAMBDA a, b : a < b)
        h == (Len(values) - 1) * q
        i == h \div 4
        r == h % 4
    IN  IF r = 0 THEN Rat(sorted[i + 1], 1)
        ELSE Rat(4 * sorted[i + 1] + r * (sorted[i + 2] - sorted[i + 1]), 4)

\* Series.describe() of a non-empty numeric series
Describe(values) ==
    LET sorted == SortSeq(values, LAMBDA a, b : a < b) IN
    [count |-> Len(values),
     mean |-> Rat(Sum(values), Len(values)),
     std |-> SeriesStd(values),
     min |-> Rat(sorted[1], 1),
     q25 |-> Quantile(values, 1),
     q50 |-> Quantile(values, 2),
     q75 |-> Quantile(values, 3),
     max |-> Rat(sorted[Len(values)], 1)]

\* the std is passed on as it is, NaN included
StdOrNoneKeepNaN(std) == std

\* float(desc["std"]) if not pd.isna(desc["std"]) else None
StdOrNone(std) == IF std = CNaN THEN PyNone ELSE std

\* the context's cohort is never consulted
CurrentCohortIgnored(context) == PyNone

\* context.get("current_cohort")
CurrentCohort(context) == Get(context, "current_cohort", PyNone)

\* execute_feature_descriptives_step(step, tables, context)
ExecuteFeatureDescriptivesStep(step, tables, context) ==
    LET feature == step.feature
        table_name == ResolveTableName(step.tables_used, tables)
        from_context == CurrentCohort(context) # PyNone
        failed(fields) ==
            [result |-> fields @@ [step_id |-> step.id, name |-> step.name,
                                   tool |-> "feature_descriptives", status |-> "failed"],
             exc |-> NoExc, context |-> context]
    IN
    IF ~from_context /\ UnknownTable(table_name, tables)
    THEN failed([error |-> "No cohort and unknown table: " \o NameText(table_name)])
    ELSE LET cohort_df == IF from_context THEN CurrentCohort(context)
                          ELSE tables[table_name.s]
             source == IF from_context THEN "current_cohort"
                       ELSE "table:" \o table_name.s
         IN  IF feature = PyNone \/ feature.s = "" \/ feature.s \notin ColumnsOf(cohort_df)
             THEN failed([source |-> source,
                          error |-> "Feature column not found: " \o NameText(feature)])
             ELSE LET series == ToNumericDropNa(cohort_df.rows, feature.s) IN
                  IF series = <<>>
                  THEN failed([source |-> source,
                               error |-> "No numeric values available for feature: "
                                            \o feature.s])
                  ELSE LET desc == Describe(series) IN
                       [result |->
                           [step_id |-> step.id, name |-> step.name,
                            tool |-> "feature_descriptives", status |-> "success",
                            source |-> source, feature |-> feature.s,
                            metrics |->
                                [count |-> desc.count, mean |-> desc.mean,
                                 std |-> StdOrNone(desc.std),
                                 min |-> desc.min, max |-> desc.max,
                                 median |-> desc.q50,
                                 iqr |-> <<desc.q25, desc.q75>>]],
                        exc |-> NoExc, context |-> context]

\* ================================================================ chunking
\* (src/src/langgraph_rag/chunking.py)
\* encoder.encode(text) of a text of n tokens: the tokens are told apart by
\* their position
Tokens(n) == [i \in 1..n |-> i]

\* an index of a slice as Python normalises it: a negative index counts
\* from the end, and both ends are clamped to 0..n
SliceIndex(i, n) ==
    IF i < 0 THEN (IF i + n < 0 THEN 0 ELSE i + n)
    ELSE (IF i > n THEN n ELSE i)

\* tokens[start:end]
Slice(tokens, start, end) ==
    SubSeq(tokens, SliceIndex(start, Len(tokens)) + 1, SliceIndex(end, Len(tokens)))

\* min(start + chunk_token_size, n)
ChunkEnd(start, chunk_token_size, n) ==
    IF start + chunk_token_size < n THEN start + chunk_token_size ELSE n

\* --------------------------------------------------------------- state
VARIABLES
    pc,          \* position of the app: idle, a graph node, END, finish, show, done, error
    state,       \* the ChatState threaded through the graph (key -> value)
    trace,       \* the nodes invoked so far in the current run, in order
    io,          \* the backend's response to each node and what the execution phase did
    raised,      \* the exception that ended the current script run, or NoExc
    answer,      \* app.py's local `answer`, PyNone while unbound
    shown,       \* what st.write displayed in the current script run, PyNone if nothing
    runs,        \* number of "Run analysis" clicks so far
    activeRun,   \* TRUE while MLflow has an active run
    last_run_id, \* st.session_state["last_run_id"], 0 for None
    tables,      \* the registry returned by the last load_tables_from_config
    context,     \* the context dict threaded through the steps of a plan
    lru,         \* the entries of _load_table's cache, least recently used first
    diskReads,   \* how often _load_table's pd.read_csv has read each file
    cohortOrigin, \* the table and filter the context's cohort was computed from
    last,        \* the last cohort-engine call: its input and its outcome
    ck           \* the chunk_text call in progress: arguments, start, chunks

appVars == <<pc, state, trace, io, raised, answer, shown, runs, activeRun, last_run_id>>
engineVars == <<tables, context, lru, diskReads, cohortOrigin, last>>
chunkVars == <<ck>>
vars == <<appVars, engineVars, chunkVars>>

Queries == {"How many NSCLC stage 4 patients have TMB data?", "What is the weather?"}

NO_ANSWER_PLACEHOLDER == "(No answer generated)"

NoIo ==
    [oncologist |-> NoResp, planner |-> NoResp, analyst |-> NoResp,
     writer |-> NoResp, exec |-> NotExecuted]

MlflowError == Exc("MlflowException", "Exception", "tracking failure")
RunAlreadyActive == Exc("Exception", "Exception", "Run is already active")

NoOrigin == [table |-> ""]

Init ==
    /\ pc = "idle"
    /\ state = EmptyMap
    /\ trace = <<>>
    /\ io = NoIo
    /\ raised = NoExc
    /\ answer = PyNone
    /\ shown = PyNone
    /\ runs = 0
    /\ activeRun = FALSE
    /\ last_run_id = 0
    /\ tables = EmptyMap
    /\ context = EmptyMap
    /\ lru = <<>>
    /\ diskReads = [f \in DOMAIN Disk |-> 0]
    /\ cohortOrigin = NoOrigin
    /\ last = [op |-> "none"]
    /\ ck = [phase |-> "idle"]

\* start_query_run(user_query) under one behaviour of MLflow
StartQueryRun(ml) ==
    IF activeRun THEN [ok |-> FALSE, exc |-> RunAlreadyActive, active |-> TRUE]
    ELSE CASE ml = "ok" -> [ok |-> TRUE, exc |-> NoExc, active |-> TRUE]
           [] ml = "start_run_fails" -> [ok |-> FALSE, exc |-> MlflowError, active |-> FALSE]
           [] ml = "log_param_fails" -> [ok |-> FALSE, exc |-> MlflowError, active |-> TRUE]

\* app.py: the "Run analysis" button with a non-empty query, up to graph.invoke
RunAnalysis(q) ==
    /\ pc \in {"idle", "done", "error"}
    /\ runs < MaxRuns
    /\ runs' = runs + 1
    /\ trace' = <<>>
    /\ io' = NoIo
    /\ answer' = PyNone
    /\ shown' = PyNone
    /\ UNCHANGED <<engineVars, chunkVars>>
    /\ \E ml \in {"ok", "start_run_fails", "log_param_fails"} :
         LET started == StartQueryRun(ml) IN
         /\ activeRun' = started.active
         /\ IF started.ok
            THEN /\ last_run_id' = runs + 1
                 /\ state' = ("user_query" :> PyStr(q))
                 /\ raised' = NoExc
                 /\ pc' = EntryPoint
            ELSE /\ last_run_id' = last_run_id
                 /\ state' = EmptyMap
                 /\ raised' = started.exc
                 /\ pc' = "error"

\* one super-step of the compiled graph: run the node, merge its patch,
\* follow its edge; an exception of the node leaves graph.invoke
NodeStep(node) ==
    /\ pc = node
    /\ \E resp \in NodeResponses(node) :
         LET out == RunNode(node, state, resp) IN
         /\ trace' = Append(trace, node)
         /\ io' = [io EXCEPT ![node] = resp,
                             !.exec = IF node = "analyst" THEN out.exec ELSE @]
         /\ IF out.raised = NoExc
            THEN /\ state' = Merge(state, out.patch)
                 /\ pc' = Edge(node)
                 /\ raised' = raised
            ELSE /\ state' = state
                 /\ pc' = "error"
                 /\ raised' = out.raised
    /\ UNCHANGED <<answer, shown, runs, activeRun, last_run_id>>
    /\ UNCHANGED <<engineVars, chunkVars>>

Oncologist == NodeStep("oncologist")
Planner == NodeStep("planner")
Analyst == NodeStep("analyst")
Writer == NodeStep("writer")

\* app.py: answer = result.get("final_answer", "(No answer generated)")
TakeAnswer ==
    /\ pc = "END"
    /\ answer' = Get(state, "final_answer", PyStr(NO_ANSWER_PLACEHOLDER))
    /\ pc' = "finish"
    /\ UNCHANGED <<state, trace, io, raised, shown, runs, activeRun, last_run_id>>
    /\ UNCHANGED <<engineVars, chunkVars>>

\* app.py: finish_query_run(start_time, result)
FinishQueryRun ==
    /\ pc = "finish"
    /\ \E ml \in {"ok", "log_fails"} :
         IF ml = "ok"
         THEN /\ activeRun' = FALSE
              /\ raised' = raised
              /\ pc' = "show"
         ELSE /\ activeRun' = activeRun
              /\ raised' = MlflowError
              /\ pc' = "error"
    /\ UNCHANGED <<state, trace, io, answer, shown, runs, last_run_id>>
    /\ UNCHANGED <<engineVars, chunkVars>>

\* app.py: st.write(answer)
ShowAnswer ==
    /\ pc = "show"
    /\ shown' = answer
    /\ pc' = "done"
    /\ UNCHANGED <<state, trace, io, raised, answer, runs, activeRun, last_run_id>>
    /\ UNCHANGED <<engineVars, chunkVars>>

Next ==
    \/ \E q \in Queries : RunAnalysis(q)
    \/ Oncologist
    \/ Planner
    \/ Analyst
    \/ Writer
    \/ TakeAnswer
    \/ FinishQueryRun
    \/ ShowAnswer

Spec == Init /\ [][Next]_vars

\* the steps Streamlit takes by itself once a script run has started; a
\* click on "Run analysis" is up to the user
ScriptStep ==
    \/ Oncologist
    \/ Planner
    \/ Analyst
    \/ Writer
    \/ TakeAnswer
    \/ FinishQueryRun
    \/ ShowAnswer

\* a script run that has started runs on until it ends or raises
LiveSpec == Spec /\ WF_vars(ScriptStep)

\* ------------------------------------------------- cohort engine: actions
\* the configurations the loader is called with: one or two tables, every
\* name at every path spelling
TableNames == {"patients", "clinical", "labs"}

\* the identifier column each logical table is configured with
ConfiguredIdColumn(name) ==
    IF name = "patients" THEN "PATIENT_ID" ELSE DEFAULT_ID_COLUMN

TableConfigEntries ==
    {TableConfigId(n, p, ConfiguredIdColumn(n)) : n \in TableNames, p \in PathSpellings}

TableConfigs ==
    {<<t>> : t \in TableConfigEntries}
        \cup {<<p[1], p[2]>> : p \in TableConfigEntries \X TableConfigEntries}

\* the registries the steps are run against
RegistryConfigs ==
    { <<TableConfig("patients", "data/patients.tsv")>>,
      <<TableConfig("clinical", "data/clinical.tsv")>>,
      <<TableConfig("patients", "data/patients.tsv"),
        TableConfig("clinical", "data/clinical.tsv")>>,
      <<TableConfig("patients", "data/patients.tsv"),
        TableConfig("labs", "data/patients.tsv")>> }

\* tables = load_tables_from_config(config); a raised load binds nothing
LoadTables(table_configs) ==
    LET r == LoadTablesFromConfig(table_configs, EmptyMap, lru, diskReads) IN
    /\ lru' = r.lru
    /\ diskReads' = r.reads
    /\ tables' = IF r.ok THEN r.tables ELSE tables
    /\ last' = [op |-> "load_tables", config |-> table_configs, ok |-> r.ok, exc |-> r.exc]
    /\ UNCHANGED <<context, cohortOrigin>>
    /\ UNCHANGED <<appVars, chunkVars>>

\* the values and the columns filters are built from
ScalarValues ==
    { CStr(<<"i", "v">>), CStr(<<"I">>), CStr(<<".">>), CStr(<<"5", ".">>),
      CStr(<<"(">>), CStr(<<"+">>), CStr(<<"I", "+">>), CInt(65) }

ListValues ==
    { CList(<<>>), CList(<<CStr(<<"I", "V">>)>>), CList(<<CStr(<<"1", "2">>)>>),
      CList(<<CInt(65)>>), CList(<<CInt(12), CInt(3)>>) }

FilterColumns == {"Stage", "TMB", "Age", "Missing"}

FilterEntries == [col : FilterColumns, val : ScalarValues \cup ListValues]

\* filter specs of up to two entries, as dicts: no column twice
FilterSpecs ==
    {<<>>} \cup {<<e>> : e \in FilterEntries}
           \cup {<<p[1], p[2]>> :
                    p \in {q \in FilterEntries \X FilterEntries : q[1].col # q[2].col}}

\* the filters of the cohort_filter steps
StepFilters ==
    { <<>>,
      <<[col |-> "Stage", val |-> CList(<<CStr(<<"I", "V">>)>>)]>>,
      <<[col |-> "Stage", val |-> CStr(<<"i", "i">>)]>>,
      <<[col |-> "Stage", val |-> CStr(<<"(">>)]>>,
      <<[col |-> "TMB", val |-> CList(<<CInt(12), CInt(3)>>)]>>,
      <<[col |-> "Missing", val |-> CStr(<<"I">>)]>> }

Frames == {PatientsFrame, ClinicalFrame}

\* a direct call _apply_filter(df, filter_spec); the function is pure, so
\* one call per behaviour covers every call
CallApplyFilter(df, filter_spec) ==
    /\ last.op = "none"
    /\ last' = [op |-> "apply_filter", df |-> df, filter |-> filter_spec,
                out |-> ApplyFilter(df, filter_spec)]
    /\ UNCHANGED <<tables, context, lru, diskReads, cohortOrigin>>
    /\ UNCHANGED <<appVars, chunkVars>>

TablesUsed == {<<>>, <<"patients">>, <<"clinical">>, <<"labs">>}

Features == {PyNone, PyStr("TMB"), PyStr("Age"), PyStr("Score"), PyStr("Stage"), PyStr("Missing")}

CohortFilterSteps ==
    {PlanStep("s1", "cohort_filter", tu, f, PyNone) : tu \in TablesUsed, f \in StepFilters}

FeatureDescriptivesSteps ==
    {PlanStep("s2", "feature_descriptives", tu, <<>>, feat) : tu \in TablesUsed, feat \in Features}

\* the executor starts a plan with an empty context
NewContext ==
    /\ context # EmptyMap
    /\ context' = EmptyMap
    /\ cohortOrigin' = NoOrigin
    /\ last' = [op |-> "new_context"]
    /\ UNCHANGED <<tables, lru, diskReads>>
    /\ UNCHANGED <<appVars, chunkVars>>

\* result, context = execute_cohort_filter_step(step, tables, context)
CohortFilterStep(step) ==
    LET r == ExecuteCohortFilterStep(step, tables, context) IN
    /\ context' = r.context
    /\ cohortOrigin' =
          IF r.exc = NoExc /\ r.result.status = "success"
          THEN [table |-> r.result.table_used, df |-> tables[r.result.table_used],
                filter |-> step.filter]
          ELSE cohortOrigin
    /\ last' = [op |-> "cohort_filter", step |-> step, result |-> r.result, exc |-> r.exc]
    /\ UNCHANGED <<tables, lru, diskReads>>
    /\ UNCHANGED <<appVars, chunkVars>>

\* result, context = execute_feature_descriptives_step(step, tables, context)
FeatureDescriptivesStep(step) ==
    LET r == ExecuteFeatureDescriptivesStep(step, tables, context) IN
    /\ context' = r.context
    /\ last' = [op |-> "feature_descriptives", step |-> step, result |-> r.result,
                exc |-> r.exc]
    /\ UNCHANGED <<tables, lru, diskReads, cohortOrigin>>
    /\ UNCHANGED <<appVars, chunkVars>>

\* base_docs = _load_table_rows_as_text(table_cfg), the loader of the
\* ingestion run; it reads the file itself and keeps nothing
IngestTable(table_cfg) ==
    LET r == LoadTableRowsAsText(table_cfg) IN
    /\ last' = [op |-> "load_rows_as_text", config |-> <<table_cfg>>,
                ok |-> r.ok, exc |-> r.exc]
    /\ UNCHANGED <<tables, context, lru, diskReads, cohortOrigin>>
    /\ UNCHANGED <<appVars, chunkVars>>

StoreNext ==
    \/ \E cfg \in TableConfigs : LoadTables(cfg)
    \/ \E t \in TableConfigEntries : IngestTable(t)

StoreSpec == Init /\ [][StoreNext]_vars

\* --------------------------------------------------------- chunking: actions
MaxTokens == 4
MaxChunkSize == 3
MaxOverlap == 3

\* the chunks the process has memory for: more than any text of MaxTokens
\* tokens needs when every chunk starts after the one before
MaxChunks == MaxTokens + 1

\* chunk_text(text, encoder=, chunk_token_size=, chunk_overlap=) up to the
\* loop: tokens = encoder.encode(text), chunks = [], start = 0, n = len(tokens)
ChunkText(n, chunk_token_size, chunk_overlap) ==
    /\ ck.phase = "idle"
    /\ ck' = [phase |-> "loop", tokens |-> Tokens(n),
              chunk_token_size |-> chunk_token_size, chunk_overlap |-> chunk_overlap,
              start |-> 0, chunks |-> <<>>]
    /\ UNCHANGED <<appVars, engineVars>>

\* one test of `while start < n` and, if it holds, one pass of the body;
\* appending to a list that has used up the memory raises MemoryError
ChunkLoop ==
    /\ ck.phase = "loop"
    /\ LET n == Len(ck.tokens)
           end == ChunkEnd(ck.start, ck.chunk_token_size, n)
       IN  IF ~(ck.start < n) THEN ck' = [ck EXCEPT !.phase = "returned"]
           ELSE IF Len(ck.chunks) = MaxChunks THEN ck' = [ck EXCEPT !.phase = "raised"]
           ELSE IF end = n
           THEN ck' = [ck EXCEPT !.chunks = Append(@, Slice(ck.tokens, ck.start, end)),
                                 !.phase = "returned"]
           ELSE ck' = [ck EXCEPT !.chunks = Append(@, Slice(ck.tokens, ck.start, end)),
                                 !.start = end - ck.chunk_overlap]
    /\ UNCHANGED <<appVars, engineVars>>

ChunkNext ==
    \/ \E n \in 0..MaxTokens, size \in 1..MaxChunkSize, overlap \in 0..MaxOverlap :
          ChunkText(n, size, overlap)
    \/ ChunkLoop

\* the call is made and the loop keeps running while it can
ChunkSpec == Init /\ [][ChunkNext]_vars /\ WF_vars(ChunkNext)


FilterNext == \E df \in Frames, f \in FilterSpecs : CallApplyFilter(df, f)

FilterSpec == Init /\ [][FilterNext]_vars

EngineNext ==
    \/ \E cfg \in RegistryConfigs : LoadTables(cfg)
    \/ NewContext
    \/ \E step \in CohortFilterSteps : CohortFilterStep(step)
    \/ \E step \in FeatureDescriptivesSteps : FeatureDescriptivesStep(step)

EngineSpec == Init /\ [][EngineNext]_vars

TypeOK ==
    /\ pc \in Nodes \cup {"idle", "END", "finish", "show", "done", "error"}
    /\ runs \in 0..MaxRuns
    /\ activeRun \in BOOLEAN
    /\ DOMAIN state \subseteq {"user_query", "oncologist_view", "plan", "execution_result",
                               "final_answer", "analyst_generated_code", "analyst_error"}

\* ============================================================ properties
Range(seq) == {seq[i] : i \in 1..Len(seq)}

StageOrder == <<"oncologist", "planner", "analyst", "writer">>

\* graph.invoke has returned or raised in the current run
InvokeReturned == pc \in {"END", "finish", "show", "done"}
InvokeRaised == pc = "error" /\ trace # <<>>

\* the node has been invoked in the current run and did not raise
Passed(node) == pc = Edge(node) \/ Edge(node) \in Range(trace) \/ (node = "writer" /\ InvokeReturned)

\* C1: in every pipeline run the Writer stage is invoked; a failure of
\* Interpret, Plan or Execute does not abort the run before the Writer.
C1_WriterAlwaysInvoked ==
    (InvokeReturned \/ InvokeRaised) => "writer" \in Range(trace)

\* the execution phase ran the generated code and a fault was raised, while
\* evaluating the source or while calling run_analysis
ExecutionFaulted == io.exec.attempted /\ ~io.exec.res.ok

\* C2: any fault raised while executing the synthesized code is caught in
\* the Execute stage, yields overall_status == "failed", and the pipeline
\* still reaches the Writer stage.
C2_ExecutionFaultContained ==
    ExecutionFaulted =>
        /\ "execution_result" \in DOMAIN state
        /\ state["execution_result"].d["overall_status"] = PyStr("failed")
        /\ (pc = "writer" \/ "writer" \in Range(trace))

\* the Execute stage ran and generate_analyst_code raised
SynthesisFailed == io.analyst.kind # "none" /\ ~ChatCompletion(io.analyst).ok

\* C3: when code synthesis fails, the Execute stage returns steps == [],
\* overall_status == "failed", the synthesis-failure notes and the error
\* message, and the generated-code execution phase is never attempted.
C3_SynthesisFailure ==
    SynthesisFailed =>
        /\ Passed("analyst")
        /\ state["execution_result"] =
              PyDict("steps" :> PyList(<<>>)
                     @@ "overall_status" :> PyStr("failed")
                     @@ "notes" :> PyStr("Code generation for Analyst failed.")
                     @@ "error" :> PyStr(ChatCompletion(io.analyst).exc.msg))
        /\ ~io.exec.attempted
        /\ "analyst_generated_code" \notin DOMAIN state

C3_Witness ==
    /\ SynthesisFailed
    /\ io.analyst.kind = "error"
    /\ pc = "writer"

\* run_analysis() returned a value
Returned == io.exec.attempted /\ io.exec.res.ok
ReturnedNonDict == Returned /\ io.exec.res.v.t # "dict"
ReturnedDict == Returned /\ io.exec.res.v.t = "dict"

\* str() of the non-dict values of NonDictPrograms, as Python prints them
ExpectedStr(v) ==
    CASE v = PyStr("done") -> "done"
      [] v = PyNone -> "None"
      [] v = PyList(<<PyInt(1), PyStr("a")>>) -> "[1, 'a']"
      [] v = PyInt(307) -> "307"

\* C4: a returned value that is not a mapping yields overall_status ==
\* "failed" with the string form of the raw value kept, and the Execute
\* stage raises nothing.
C4_NonMappingResult ==
    ReturnedNonDict =>
        /\ Passed("analyst")
        /\ state["execution_result"].d["overall_status"] = PyStr("failed")
        /\ state["execution_result"].d["raw_return"] = PyStr(ExpectedStr(io.exec.res.v))

C4_Witness ==
    /\ ReturnedNonDict
    /\ io.exec.res.v = PyList(<<PyInt(1), PyStr("a")>>)
    /\ pc = "writer"

\* C5: a returned mapping yields an execution_result with exactly the keys
\* steps (from the mapping, [] if absent), overall_status (from the
\* mapping, "success" if absent) and the notes of the sandbox; every other
\* key of the mapping, its notes and error included, is discarded.
C5_MappingNormalized ==
    ReturnedDict =>
        LET ret == io.exec.res.v.d
            er == state["execution_result"].d
        IN  /\ DOMAIN er = {"steps", "overall_status", "notes"}
            /\ er["steps"] = IF "steps" \in DOMAIN ret THEN ret["steps"] ELSE PyList(<<>>)
            /\ er["overall_status"] =
                  IF "overall_status" \in DOMAIN ret THEN ret["overall_status"]
                  ELSE PyStr("success")
            /\ er["notes"] =
                  PyStr("Analyst executed a dynamically generated analysis script.")

C5_Witness ==
    /\ ReturnedDict
    /\ {"notes", "error"} \subseteq DOMAIN io.exec.res.v.d
    /\ pc = "writer"

\* C6: for every value run_analysis() can return, no failure attributable
\* to the generated code surfaces as an unhandled fault of the pipeline in
\* the Execute stage or in the Writer stage: a run in which the code
\* returned a value ends in an error only through the backend or MLflow.
C6_NoFaultFromReturnedValue ==
    (Returned /\ pc = "error") =>
        raised \in {BackendError, ChatCompletion(RespNoContent).exc, MlflowError}

\* C7: in every run that completes, the four stages ran exactly once each
\* in the order oncologist, planner, analyst, writer; at every moment the
\* nodes invoked so far are a prefix of that order and the next node is
\* the one after it.
C7_FixedOrder ==
    /\ Len(trace) <= Len(StageOrder)
    /\ trace = SubSeq(StageOrder, 1, Len(trace))
    /\ pc \in Nodes => pc = StageOrder[Len(trace) + 1]
    /\ InvokeReturned => trace = StageOrder

C7_Witness ==
    /\ pc = "done"
    /\ trace = StageOrder
    /\ state["oncologist_view"].d = ("can_be_answered" :> PyBool(FALSE)
                                     @@ "_prompt_id" :> PyStr(ONCOLOGIST_PROMPT_ID))

\* the fields each stage adds to the ChatState
StageFields(node) ==
    CASE node = "oncologist" -> {"oncologist_view"}
      [] node = "planner" -> {"plan"}
      [] node = "analyst" -> {"execution_result", "analyst_generated_code", "analyst_error"}
      [] node = "writer" -> {"final_answer"}

\* C8: a stage's patch holds only the fields it adds; merging it leaves
\* every other field unchanged (user_query and earlier outputs included),
\* and fields no stage has set stay absent.
StagePatchFrame ==
    pc \in Nodes =>
        /\ DOMAIN state \subseteq DOMAIN state'
        /\ (DOMAIN state' \ DOMAIN state) \subseteq StageFields(pc)
        /\ \A k \in DOMAIN state \ StageFields(pc) : state'[k] = state[k]
        /\ (pc' = Edge(pc) => StageFields(pc) \cap DOMAIN state' # {})

C8_PatchFrame == [][StagePatchFrame]_vars

C8_Witness ==
    /\ pc = "END"
    /\ DOMAIN state = {"user_query", "oncologist_view", "plan", "execution_result",
                       "analyst_generated_code", "final_answer"}

\* the stage was invoked and the backend's text is not JSON
Unparseable(node) ==
    /\ io[node].kind = "text"
    /\ ~JsonLoads(Strip(io[node].content)).ok

StageField(node) == IF node = "oncologist" THEN "oncologist_view" ELSE "plan"
StagePromptId(node) == IF node = "oncologist" THEN ONCOLOGIST_PROMPT_ID ELSE PLANNER_PROMPT_ID

\* C9: when the backend's response to the Interpreter or the Planner is
\* not JSON, the stage returns a mapping wrapping the raw text with the
\* parse-error flag set, and the pipeline continues to the next stage.
C9_ParseFailureIsData ==
    \A node \in {"oncologist", "planner"} :
        Unparseable(node) =>
            /\ Passed(node)
            /\ state[StageField(node)] =
                  PyDict("raw_text" :> PyStr(Strip(io[node].content))
                         @@ "parse_error" :> PyBool(TRUE)
                         @@ "_prompt_id" :> PyStr(StagePromptId(node)))

C9_Witness ==
    /\ io.oncologist = RespText(<<DocProse>>)
    /\ io.planner = RespText(<<" ">>)
    /\ state["oncologist_view"].d["raw_text"] = PyStr(DocProse)
    /\ state["plan"].d["raw_text"] = PyStr("")
    /\ pc = "analyst"

\* C10: whenever the pipeline reaches Done, the answer handed to the
\* caller is non-empty: the record's final_answer, or the placeholder when
\* final_answer is absent.
C10_AnswerNonEmpty ==
    pc \in {"finish", "show", "done"} =>
        /\ answer = Get(state, "final_answer", PyStr(NO_ANSWER_PLACEHOLDER))
        /\ answer # PyStr("")

\* the Execute stage ran and generate_analyst_code returned a program text
CodeSynthesized == io.analyst.kind = "text"
SynthesizedCode == CodeStr(Strip(io.analyst.content), SourceLen(Strip(io.analyst.content)))

\* C11: for every outcome of the Execute stage in which code was
\* synthesized (execution fault, non-mapping result, normalized mapping
\* result) the source text is kept in the stage's output, cut to at most
\* 4000 characters.
C11_CodeExcerptPreserved ==
    CodeSynthesized =>
        /\ "analyst_generated_code" \in DOMAIN state
        /\ state["analyst_generated_code"].s = SynthesizedCode.s
        /\ state["analyst_generated_code"].len =
              (IF SynthesizedCode.len <= 4000 THEN SynthesizedCode.len ELSE 4000)

ExecutionStatuses == {PyStr("success"), PyStr("partial_success"), PyStr("failed")}

\* C12: in every reachable record, execution_result.overall_status is one
\* of "success", "partial_success", "failed", whatever run_analysis()
\* returned.
C12_OverallStatusEnum ==
    "execution_result" \in DOMAIN state =>
        state["execution_result"].d["overall_status"] \in ExecutionStatuses

\* the script run is over: the answer was displayed or an exception ended it
ScriptRunOver == pc \in {"done", "error"}

\* C13: a failure raised by an observability call around a run
\* (start_query_run before the pipeline, finish_query_run after it) never
\* keeps the user from seeing the answer of that run.
C13_ObservabilityFailureHarmless ==
    (ScriptRunOver /\ raised \in {MlflowError, RunAlreadyActive}) => shown # PyNone

\* ------------------------------------------------- cohort engine: claims
AppliedFilter == last.op = "apply_filter"

Entries(filter_spec) == {filter_spec[i] : i \in 1..Len(filter_spec)}

ReferencesAbsentColumn(df, filter_spec) ==
    \E e \in Entries(filter_spec) : e.col \notin ColumnsOf(df)

\* C14: for every table and every filter spec that references a column the
\* table does not have, whatever its other entries are, _apply_filter
\* returns zero rows and does not raise.
C14_AbsentColumnYieldsNoRows ==
    (AppliedFilter /\ ReferencesAbsentColumn(last.df, last.filter)) =>
        (last.out.ok /\ last.out.v.rows = <<>>)

\* every entry is on a column of the table and has a value of this kind
EveryEntry(df, filter_spec, kinds) ==
    /\ filter_spec # <<>>
    /\ \A e \in Entries(filter_spec) : e.col \in ColumnsOf(df) /\ e.val.t \in kinds

\* the rows of df that satisfy keep(row, entry) for every entry
RowsKept(df, filter_spec, keep(_, _)) ==
    SelectRows(df.rows,
        [i \in 1..Len(df.rows) |-> \A e \in Entries(filter_spec) : keep(df.rows[i], e)])

\* the row's value is a member of the entry's list
MemberOfList(row, e) == \E j \in 1..Len(e.val.items) : PyEq(row[e.col], e.val.items[j])

\* C15: for list-valued entries, _apply_filter keeps a row if and only if
\* the row's value in the column is a member of the list.
C15_ListEntryIsMembership ==
    (AppliedFilter /\ EveryEntry(last.df, last.filter, {"list"})) =>
        /\ last.out.ok
        /\ last.out.v.rows = RowsKept(last.df, last.filter, MemberOfList)

\* the string form of the row's value contains the scalar's text, both
\* lower-cased, as a run of characters
ContainsScalar(row, e) ==
    ContainsText(LowerText(StrOf(row[e.col])), LowerText(StrOf(e.val)))

\* C16: for scalar entries, _apply_filter keeps a row if and only if the
\* string form of the row's value contains the scalar's text as a literal
\* substring, case-insensitively, for every scalar text; several entries
\* are ANDed.
C16_ScalarEntryIsLiteralSubstring ==
    (AppliedFilter /\ EveryEntry(last.df, last.filter, {"str", "int"})) =>
        /\ last.out.ok
        /\ last.out.v.rows = RowsKept(last.df, last.filter, ContainsScalar)


Described == last.op = "feature_descriptives"

\* the step got as far as a frame: its result names the source
HasSource == Described /\ "source" \in DOMAIN last.result

\* the frame the result's source names
SourceFrame ==
    IF last.result.source = "current_cohort" THEN context["current_cohort"]
    ELSE tables[CHOOSE n \in DOMAIN tables : last.result.source = "table:" \o n]

FeatureAbsent(df, feature) == feature = PyNone \/ feature.s \notin ColumnsOf(df)

\* the numeric values of the feature column after coercion
NumericValues(df, feature) ==
    IF FeatureAbsent(df, feature) THEN <<>> ELSE ToNumericDropNa(df.rows, feature.s)

DescribedAfterFilter ==
    Described /\ cohortOrigin # NoOrigin /\ last.step.tables_used = <<>>

\* the cohort that filter step produced
OriginCohort == ApplyFilter(cohortOrigin.df, cohortOrigin.filter).v

\* C18: after a successful cohort_filter step on table T with filter F, a
\* following feature_descriptives step that names no table computes its
\* metrics over the cohort the first step produced, not over T.
C18_DescriptivesUseCohort ==
    DescribedAfterFilter =>
        LET nums == NumericValues(OriginCohort, last.step.feature)
            res == last.result
        IN  /\ "source" \in DOMAIN res
            /\ res.source = "current_cohort"
            /\ IF nums = <<>> THEN res.status = "failed"
               ELSE /\ res.status = "success"
                    /\ res.metrics.count = Len(nums)
                    /\ RatEq(res.metrics.mean, Rat(Sum(nums), Len(nums)))
                    /\ res.metrics.min = Describe(nums).min
                    /\ res.metrics.max = Describe(nums).max
                    /\ res.metrics.median = Describe(nums).q50

\* the cohort is a proper part of T and the metrics count only the cohort
C18_Witness ==
    /\ DescribedAfterFilter
    /\ last.result.status = "success"
    /\ last.result.metrics.count = Len(NumericValues(OriginCohort, last.step.feature))
    /\ last.result.metrics.count < Len(NumericValues(cohortOrigin.df, last.step.feature))

\* the name a step gives and what alias resolution makes of it
NamedTable == Head(last.step.tables_used)

ResolvedTable ==
    IF NamedTable = "clinical" /\ "patients" \in DOMAIN tables THEN "patients"
    ELSE NamedTable

Registered == last.step.tables_used # <<>> /\ ResolvedTable \in DOMAIN tables

\* a step that looked its table up: a cohort_filter step that returned, or
\* a feature_descriptives step run on a context without a cohort
LookedUpTable ==
    \/ last.op = "cohort_filter" /\ last.exc = NoExc
    \/ Described /\ CurrentCohort(context) = PyNone

FailedUnknownTable ==
    /\ last.result.status = "failed"
    /\ \E n \in TableNames \cup {"None"} :
          last.result.error \in {"Unknown table: " \o n, "No cohort and unknown table: " \o n}

\* C19: a step's table name goes through alias resolution before the lookup
\* ("clinical" resolves to a registered "patients"), and the step fails
\* with an unknown-table error only if the resolved name is not registered.
C19_AliasBeforeLookup ==
    LookedUpTable =>
        /\ FailedUnknownTable <=> ~Registered
        /\ (Registered /\ last.op = "cohort_filter") =>
              last.result.table_used = ResolvedTable
        /\ (Registered /\ Described) =>
              last.result.source = "table:" \o ResolvedTable

\* a step naming "clinical" ran on a registry that only has "patients"
C19_Witness ==
    /\ last.op = "cohort_filter"
    /\ last.exc = NoExc
    /\ last.step.tables_used = <<"clinical">>
    /\ "clinical" \notin DOMAIN tables
    /\ last.result.status = "success"
    /\ last.result.table_used = "patients"


\* C20: over any sequence of table loads in one process, a file is read
\* from disk once per distinct resolved path and served from the cache
\* afterwards; two logical tables that share a path share one cached load.
C20_ReadOncePerResolvedPath ==
    \A f \in DOMAIN Disk : diskReads[f] <= 1


\* a load has been attempted, by either loader
LoadAttempted == last.op \in {"load_tables", "load_rows_as_text"}

PathMissing(t) == Resolve(t.path) \notin DOMAIN Disk

IdColumnAbsent(t) == ~PathMissing(t) /\ t.id_column \notin ColumnsOf(Disk[Resolve(t.path)])

\* the first table of the configuration that cannot be loaded, 0 if none
FirstUnloadable(config) ==
    IF \E i \in 1..Len(config) : PathMissing(config[i]) \/ IdColumnAbsent(config[i])
    THEN CHOOSE i \in 1..Len(config) :
            /\ PathMissing(config[i]) \/ IdColumnAbsent(config[i])
            /\ \A j \in 1..(i - 1) : ~PathMissing(config[j]) /\ ~IdColumnAbsent(config[j])
    ELSE 0

\* C21: loading a table fails with a not-found error if its path does not
\* exist, and with a schema error if its configured id_column is not a
\* column of the loaded file.
C21_LoadFailsOnMissingPathOrIdColumn ==
    (LoadAttempted /\ FirstUnloadable(last.config) # 0) =>
        LET t == last.config[FirstUnloadable(last.config)] IN
        /\ ~last.ok
        /\ PathMissing(t) => last.exc.cls = "FileNotFoundError"
        /\ IdColumnAbsent(t) => last.exc.cls = "ValueError"


StepExecuted == last.op \in {"cohort_filter", "feature_descriptives"}

\* C22: a failure inside a plan step never escapes the step: for every
\* step and every context both step functions return a result, with status
\* "failed" and an error on failure, instead of raising.
C22_StepFailureContained ==
    StepExecuted =>
        /\ last.exc = NoExc
        /\ last.result.status \in {"success", "failed"}
        /\ last.result.status = "failed" => "error" \in DOMAIN last.result

\* the context's cohort is the filtered raw table of the most recent
\* successful cohort_filter step, or absent when there was none
CohortIsLatestFilter ==
    IF cohortOrigin = NoOrigin THEN CurrentCohort(context) = PyNone
    ELSE /\ CurrentCohort(context) = ApplyFilter(cohortOrigin.df, cohortOrigin.filter).v
         /\ Get(context, "current_cohort_table", PyNone) = PyStr(cohortOrigin.table)

\* the step just taken was a feature_descriptives step or a cohort_filter
\* step that did not succeed
StepWithoutCohort ==
    \/ last'.op = "feature_descriptives"
    \/ last'.op = "cohort_filter" /\ (last'.exc # NoExc \/ last'.result.status = "failed")

ContextFrame == StepWithoutCohort => context' = context

\* C23: after any sequence of steps over one context, current_cohort is
\* null if no cohort_filter step has succeeded and otherwise the raw table
\* of the most recent successful cohort_filter step filtered by that step's
\* filter alone; a failed cohort_filter step and every feature_descriptives
\* step leave the context unchanged.
C23_CurrentCohort == [](CohortIsLatestFilter) /\ [][ContextFrame]_vars

\* a cohort_filter step failed after an earlier one had left a cohort that
\* is a proper, non-empty part of its table
C23_Witness ==
    /\ last.op = "cohort_filter"
    /\ last.exc = NoExc
    /\ last.result.status = "failed"
    /\ cohortOrigin # NoOrigin
    /\ Len(context["current_cohort"].rows) \in 1..(Len(cohortOrigin.df.rows) - 1)


\* the backend answered the node with a text
AnsweredWithText(node) == io[node].kind = "text"

\* C24: for every response text of the backend, text that is valid JSON
\* but not a JSON object included, the Interpreter and the Planner return
\* a mapping that carries a _prompt_id entry and do not raise.
C24_StageReturnsMappingForAnyText ==
    \A node \in {"oncologist", "planner"} :
        AnsweredWithText(node) =>
            /\ Passed(node)
            /\ state[StageField(node)].t = "dict"
            /\ "_prompt_id" \in DOMAIN state[StageField(node)].d


\* the program the Execute stage ran
ExecutedProgram == ProgramOf(SynthesizedCode)

\* the code was evaluated without a fault, defined run_analysis, and its
\* body reads a name the code bound at its top level
ReadsTopLevelName ==
    /\ io.exec.attempted
    /\ ExecutedProgram.top = NoExc
    /\ ExecutedProgram.entry = "function"
    /\ ExecutedProgram.refers \cap ExecutedProgram.binds # {}

\* C25: when the generated code binds a name at its top level and
\* run_analysis reads it, the name resolves when run_analysis() is called:
\* the call does what the body does, no name is undefined.
C25_TopLevelNamesVisible ==
    ReadsTopLevelName =>
        /\ io.exec.res = ExecutedProgram.call
        /\ io.exec.res.exc.cls # "NameError"


ChunkTextReturned == ck.phase = "returned"

\* every token of the input is in some chunk, and the chunks are runs of
\* the input that start one after the other
ChunksCoverInOrder ==
    /\ \A t \in 1..Len(ck.tokens) :
          \E c \in 1..Len(ck.chunks) : t \in Range(ck.chunks[c])
    /\ \A c \in 1..Len(ck.chunks) :
          /\ ck.chunks[c] # <<>>
          /\ \A k \in 1..(Len(ck.chunks[c]) - 1) : ck.chunks[c][k + 1] = ck.chunks[c][k] + 1
    /\ \A c \in 1..(Len(ck.chunks) - 1) : ck.chunks[c][1] < ck.chunks[c + 1][1]

\* C26: chunk_text terminates for every token sequence and every
\* chunk_token_size >= 1 and chunk_overlap >= 0, chunk_overlap >=
\* chunk_token_size included, and the chunks it returns cover every token
\* of the input in order.
C26_ChunkTextTerminatesAndCovers ==
    /\ <>ChunkTextReturned
    /\ [](ChunkTextReturned => ChunksCoverInOrder)


\* start_query_run is being called for a query
StartsQueryRun == runs' = runs + 1

\* C27: every MLflow run opened by start_query_run is eventually closed by
\* finish_query_run, in every execution, one in which the pipeline raises
\* included, so that no run is active when the next query calls
\* start_query_run.
C27_RunEventuallyClosed ==
    /\ activeRun ~> ~activeRun
    /\ [][StartsQueryRun => ~activeRun]_vars

====
